---- MODULE Spec2Model ----
(***************************************************************************)
(* Model of log-interleaver: timestamp parsing (pkg/timestamp), per-line   *)
(* parsing and uptime resolution (internal/parser), automatic offset       *)
(* alignment and the chronological merge (internal/interleaver).           *)
(*                                                                         *)
(* Time is an integer number of milliseconds measured from the start of    *)
(* the calendar year in which the program runs (the year ParseAbsolute     *)
(* takes from the wall clock); uptime values are milliseconds as well.     *)
(* An instant that is not a whole number of milliseconds is Time           *)
(* milliseconds and Nanos nanoseconds, Nanos being -1, 0 or 1.             *)
(* The text of a log line is abstracted to the tokens the four regular     *)
(* expressions of pkg/timestamp can find in it.                            *)
(***************************************************************************)
EXTENDS Integers, Sequences, FiniteSets, TLC

VARIABLES
    files,          \* the log directory: tag |-> sequence of line texts
    dirReadable,    \* whether os.ReadDir succeeds on the log directory
    unreadable,     \* the tags whose file cannot be opened or read to its end
    autoAlign,      \* Interleaver.autoAlign
    fileOffsets,    \* Interleaver.fileOffsets: a function on a subset of Tags
    pc,             \* "config" | "rerun" | "done": position of main
    manualOffsets,  \* the entries SetFileOffset has stored (history)
    parsed,         \* linesByTag as parseFile returned it
    linesByTag,     \* linesByTag after uptime resolution, before offsets
    rangeOrder,     \* order in which the reference search ranged over the map
    reference,      \* referenceTag / referenceTime of calculateAutoOffsets
    allLines,       \* the concatenation handed to sort.Slice (offsets applied)
    result,         \* the slice Process returned
    err,            \* the error Process returned, "nil" for none
    runs            \* formatted output of every completed run

vars == <<files, dirReadable, unreadable, autoAlign, fileOffsets, pc,
          manualOffsets, parsed, linesByTag, rangeOrder, reference, allLines,
          result, err, runs>>

----------------------------------------------------------------------------
(* Units and window sizes *)

Hour == 3600000
Day == 24 * Hour
UptimeWindow == 5
AnchorWindow == 10

(* Bounds of the model *)
MaxTotal == 3
MaxParse == 2
MaxRerun == 2
MaxRuns == 2
MaxResolve == 3
MaxIO == 2
MaxWindow == 23
MaxPairing == 7
MaxPhases == 3
MaxRange == 2

Tags == {"daemon", "e825", "e830"}

----------------------------------------------------------------------------
(* Line texts.  head is the token at the start of the line: "compact" for  *)
(* [IEWD]MMDD HH:MM:SS.uuuuuu, "full" for YYYY-MM-DD HH:MM:SS, "none"      *)
(* otherwise, and t the instant its fields denote.  hasEpoch: the line     *)
(* holds a token [digits]: whose value fits int64 iff epochFits, denoting  *)
(* the instant epoch.  hasUptime: the line holds a token [digits.digits]:  *)
(* whose parts fit an int iff uptimeFits, of value uptime.  inRange: the    *)
(* fields of the head token are all within their calendar ranges.          *)

Text(head, t, hasEpoch, epochFits, epoch, hasUptime, uptimeFits, uptime) ==
    [head |-> head, t |-> t,
     hasEpoch |-> hasEpoch, epochFits |-> epochFits, epoch |-> epoch,
     hasUptime |-> hasUptime, uptimeFits |-> uptimeFits, uptime |-> uptime,
     inRange |-> TRUE]

Plain == Text("none", 0, FALSE, FALSE, 0, FALSE, FALSE, 0)
Compact(t) == Text("compact", t, FALSE, FALSE, 0, FALSE, FALSE, 0)
Full(t) == Text("full", t, FALSE, FALSE, 0, FALSE, FALSE, 0)
Epoch(t) == Text("none", 0, TRUE, TRUE, t, FALSE, FALSE, 0)
Uptime(u) == Text("none", 0, FALSE, FALSE, 0, TRUE, TRUE, u)
WithEpoch(x, t) == [x EXCEPT !.hasEpoch = TRUE, !.epochFits = TRUE, !.epoch = t]
WithUptime(x, u) == [x EXCEPT !.hasUptime = TRUE, !.uptimeFits = TRUE, !.uptime = u]

\* time.Date(year, January, day, hour, min, 0, 0, time.UTC), year being the
\* year of the run: values outside their usual ranges are normalised, day
\* 0 to the last day of the month before, hour 25 to 01:00 of the next day,
\* minute 61 to the first minute of the next hour
Minute == 60000
Date(day, hour, min) == ((day - 1) * 24 + hour) * Hour + min * Minute

fieldsInRange(day, hour, min) == day \in 1..31 /\ hour \in 0..23 /\ min \in 0..59

\* the texts "I01dd hh:mm:00.000000 ..." and "yyyy-01-dd hh:mm:00 ...", yyyy
\* being the year of the run, for two-digit fields dd, hh and mm
CompactAt(day, hour, min) ==
    [Compact(Date(day, hour, min)) EXCEPT !.inRange = fieldsInRange(day, hour, min)]
FullAt(day, hour, min) ==
    [Full(Date(day, hour, min)) EXCEPT !.inRange = fieldsInRange(day, hour, min)]

----------------------------------------------------------------------------
(* pkg/timestamp *)

NilTimestamp ==
    [present |-> FALSE, Time |-> 0, Nanos |-> 0, Type |-> "TypeUnknown", UptimeSec |-> 0]
Timestamp(time, type, uptimeSec) ==
    [present |-> TRUE, Time |-> time, Nanos |-> 0, Type |-> type, UptimeSec |-> uptimeSec]

\* time.Time.Before
Before(a, b) == a.Time < b.Time \/ (a.Time = b.Time /\ a.Nanos < b.Nanos)

ParseAbsolute(line) ==
    IF line.head = "compact"
    THEN [err |-> FALSE, ts |-> Timestamp(line.t, "TypeAbsolute", 0)]
    ELSE [err |-> TRUE, ts |-> NilTimestamp]

ParseFullDateTime(line) ==
    IF line.head = "full"
    THEN [err |-> FALSE, ts |-> Timestamp(line.t, "TypeAbsolute", 0)]
    ELSE [err |-> TRUE, ts |-> NilTimestamp]

ParseLinux(line) ==
    IF line.hasEpoch /\ line.epochFits
    THEN [err |-> FALSE, ts |-> Timestamp(line.epoch, "TypeLinux", 0)]
    ELSE [err |-> TRUE, ts |-> NilTimestamp]

ParseUptime(line) ==
    IF line.hasUptime /\ line.uptimeFits
    THEN [ok |-> TRUE, uptime |-> line.uptime]
    ELSE [ok |-> FALSE, uptime |-> 0]

\* the layout 15:04:05.000000: the time of day, cut off after the
\* microseconds; the result is <<milliseconds of the day, microseconds of
\* the millisecond>>
FormatTimestamp(t) ==
    IF t.Nanos < 0
    THEN <<(t.Time - 1) % Day, (1000000 + t.Nanos) \div 1000>>
    ELSE <<t.Time % Day, t.Nanos \div 1000>>

----------------------------------------------------------------------------
(* internal/parser: ParseLine *)

LogLine(text, tag, ts, uptimeSec, lineNum) ==
    [OriginalLine |-> text, Tag |-> tag, Timestamp |-> ts,
     UptimeSec |-> uptimeSec, LineNumber |-> lineNum]

\* a parser that looks for the bracketed uptime before the date-time formats
\* and keeps the value it found
ParseLineUptimeFirst(tag, line, lineNum) ==
    LET uptimeSec == IF ParseUptime(line).ok THEN ParseUptime(line).uptime ELSE 0
    IN  IF ~ParseAbsolute(line).err
        THEN LogLine(line, tag, ParseAbsolute(line).ts, uptimeSec, lineNum)
        ELSE IF ParseUptime(line).ok
        THEN LogLine(line, tag, NilTimestamp, uptimeSec, lineNum)
        ELSE IF ~ParseFullDateTime(line).err
        THEN LogLine(line, tag, ParseFullDateTime(line).ts, 0, lineNum)
        ELSE IF ~ParseLinux(line).err
        THEN LogLine(line, tag, ParseLinux(line).ts, 0, lineNum)
        ELSE LogLine(line, tag, NilTimestamp, 0, lineNum)

\* a parser that stores the uptime of an uptime line as a timestamp of
\* type TypeUptime
ParseLineUptimeTyped(tag, line, lineNum) ==
    IF ~ParseAbsolute(line).err
    THEN LogLine(line, tag, ParseAbsolute(line).ts, 0, lineNum)
    ELSE IF ~ParseFullDateTime(line).err
    THEN LogLine(line, tag, ParseFullDateTime(line).ts, 0, lineNum)
    ELSE IF ~ParseLinux(line).err
    THEN LogLine(line, tag, ParseLinux(line).ts, 0, lineNum)
    ELSE IF ParseUptime(line).ok
    THEN LogLine(line, tag,
                 Timestamp(ParseUptime(line).uptime, "TypeUptime",
                           ParseUptime(line).uptime),
                 ParseUptime(line).uptime, lineNum)
    ELSE LogLine(line, tag, NilTimestamp, 0, lineNum)

ParseLine(tag, line, lineNum) ==
    IF ~ParseAbsolute(line).err
    THEN LogLine(line, tag, ParseAbsolute(line).ts, 0, lineNum)
    ELSE IF ~ParseFullDateTime(line).err
    THEN LogLine(line, tag, ParseFullDateTime(line).ts, 0, lineNum)
    ELSE IF ~ParseLinux(line).err
    THEN LogLine(line, tag, ParseLinux(line).ts, 0, lineNum)
    ELSE IF ParseUptime(line).ok
    THEN LogLine(line, tag, NilTimestamp, ParseUptime(line).uptime, lineNum)
    ELSE LogLine(line, tag, NilTimestamp, 0, lineNum)

\* a reader that stops at the first line no convention matches
parseFileStopping(file, tag) ==
    LET matched(n) == \/ ParseLine(tag, file[n], n).Timestamp.present
                      \/ ParseUptime(file[n]).ok
        stop == {n \in 1..Len(file) : ~matched(n)}
        last == IF stop = {} THEN Len(file)
                ELSE (CHOOSE n \in stop : \A m \in stop : n <= m) - 1
    IN  [n \in 1..last |-> ParseLine(tag, file[n], n)]

parseFile(file, tag) == [n \in 1..Len(file) |-> ParseLine(tag, file[n], n)]

----------------------------------------------------------------------------
(* internal/parser: ResolveUptimeTimestamps.  Line indices are 1-based     *)
(* here and 0-based in the source; only their differences are used.        *)

Min(S) == CHOOSE x \in S : \A y \in S : x <= y
Max(S) == CHOOSE x \in S : \A y \in S : x >= y
abs(x) == IF x < 0 THEN -x ELSE x

\* the lines the first pass appends to absTimestamps, by index
anchorIndices(lines) ==
    {i \in DOMAIN lines :
        lines[i].Timestamp.present /\ lines[i].Timestamp.Type = "TypeAbsolute"}

\* the absTimestamp record the first pass builds for the anchor at index i
absTimestamp(lines, i) ==
    LET backward == {j \in DOMAIN lines :
                        j < i /\ j >= i - UptimeWindow /\ lines[j].UptimeSec > 0}
        forward == {j \in DOMAIN lines :
                        j > i /\ j <= i + UptimeWindow /\ lines[j].UptimeSec > 0}
    IN  IF backward # {}
        THEN [lineNum |-> i, time |-> lines[i].Timestamp.Time,
              uptime |-> lines[Max(backward)].UptimeSec, hasUptime |-> TRUE]
        ELSE IF forward # {}
        THEN [lineNum |-> i, time |-> lines[i].Timestamp.Time,
              uptime |-> lines[Min(forward)].UptimeSec, hasUptime |-> TRUE]
        ELSE [lineNum |-> i, time |-> lines[i].Timestamp.Time,
              uptime |-> 0, hasUptime |-> FALSE]

\* the index of the anchor the second pass selects as refAbs for line i;
\* absTimestamps is in ascending index order, so the first strictly nearer
\* anchor is the nearest one with the smallest index
refAbs(lines, i) ==
    LET A == anchorIndices(lines)
        forwardAbs == {j \in A : j > i}
        backwardAbs == {j \in A : j < i}
        nearestAbs == CHOOSE j \in A : \A k \in A :
                          \/ abs(j - i) < abs(k - i)
                          \/ (abs(j - i) = abs(k - i) /\ j <= k)
    IN  IF forwardAbs # {} /\ Min(forwardAbs) - i <= AnchorWindow
        THEN Min(forwardAbs)
        ELSE IF backwardAbs # {} /\ i - Max(backwardAbs) <= AnchorWindow
        THEN Max(backwardAbs)
        ELSE nearestAbs

\* time.Duration(uptimeDiff * float64(time.Second)): the float64 product is
\* cut off toward zero.  The result is the exact difference in milliseconds
\* and the nanoseconds by which the conversion misses it.  Whole seconds
\* are exact in float64; 5.1 is not, and (5.1 - 5.0) * 1e9 evaluates to
\* 99999999.99999964, which becomes 99999999 ns; (5.1 - 7.0) * 1e9 and
\* (7.0 - 5.1) * 1e9 evaluate to whole numbers.
uptimeDuration(uptimeSec, refUptime) ==
    [ms |-> uptimeSec - refUptime,
     nanos |-> IF uptimeSec = 5100 /\ refUptime = 5000 THEN -1
               ELSE IF uptimeSec = 5000 /\ refUptime = 5100 THEN 1
               ELSE 0]

\* a second pass that takes every line with an uptime value, also one that
\* has a timestamp already
resolveLineAgain(lines, i) ==
    IF lines[i].UptimeSec > 0
    THEN LET ref == absTimestamp(lines, refAbs(lines, i))
             d == uptimeDuration(lines[i].UptimeSec, ref.uptime)
         IN  IF ref.hasUptime
             THEN [lines[i] EXCEPT !.Timestamp =
                     [Timestamp(ref.time + d.ms, "TypeAbsolute", lines[i].UptimeSec)
                         EXCEPT !.Nanos = d.nanos]]
             ELSE [lines[i] EXCEPT !.Timestamp =
                     Timestamp(ref.time, "TypeAbsolute", lines[i].UptimeSec)]
    ELSE lines[i]

\* a second pass that drops the stored uptime of a line once the line is
\* resolved
resolveLineClearing(lines, i) ==
    IF lines[i].UptimeSec > 0 /\ ~lines[i].Timestamp.present
    THEN LET ref == absTimestamp(lines, refAbs(lines, i))
             d == uptimeDuration(lines[i].UptimeSec, ref.uptime)
         IN  IF ref.hasUptime
             THEN [lines[i] EXCEPT !.UptimeSec = 0, !.Timestamp =
                     [Timestamp(ref.time + d.ms, "TypeAbsolute", lines[i].UptimeSec)
                         EXCEPT !.Nanos = d.nanos]]
             ELSE [lines[i] EXCEPT !.UptimeSec = 0, !.Timestamp =
                     Timestamp(ref.time, "TypeAbsolute", lines[i].UptimeSec)]
    ELSE lines[i]

\* the second pass on line i, given at least one anchor
resolveLine(lines, i) ==
    IF lines[i].UptimeSec > 0 /\ ~lines[i].Timestamp.present
    THEN LET ref == absTimestamp(lines, refAbs(lines, i))
             d == uptimeDuration(lines[i].UptimeSec, ref.uptime)
         IN  IF ref.hasUptime
             THEN [lines[i] EXCEPT !.Timestamp =
                     [Timestamp(ref.time + d.ms, "TypeAbsolute", lines[i].UptimeSec)
                         EXCEPT !.Nanos = d.nanos]]
             ELSE [lines[i] EXCEPT !.Timestamp =
                     Timestamp(ref.time, "TypeAbsolute", lines[i].UptimeSec)]
    ELSE lines[i]

ResolveUptimeTimestamps(lines) ==
    IF anchorIndices(lines) = {}
    THEN [err |-> TRUE, lines |-> lines]
    ELSE [err |-> FALSE, lines |-> [i \in DOMAIN lines |-> resolveLine(lines, i)]]

----------------------------------------------------------------------------
(* internal/interleaver *)

\* Process, lines 572-589: resolve the tags that have an uptime value; a
\* tag whose resolution fails keeps its lines as parsed
hasUptime(lines) == \E i \in DOMAIN lines : lines[i].UptimeSec > 0

\* a loop that gives up on every file once the resolution of one fails
resolveAllAbandon(byTag) ==
    IF \E tag \in DOMAIN byTag :
          hasUptime(byTag[tag]) /\ ResolveUptimeTimestamps(byTag[tag]).err
    THEN byTag
    ELSE [tag \in DOMAIN byTag |->
            IF hasUptime(byTag[tag])
            THEN ResolveUptimeTimestamps(byTag[tag]).lines
            ELSE byTag[tag]]

\* a loop that returns the error of a failed resolution
resolveErrorSurfaced(byTag) ==
    \E tag \in DOMAIN byTag :
        hasUptime(byTag[tag]) /\ ResolveUptimeTimestamps(byTag[tag]).err

\* lines 583-587: the error of a failed resolution is dropped (continue)
resolveError(byTag) == FALSE

resolveAll(byTag) ==
    [tag \in DOMAIN byTag |->
        IF hasUptime(byTag[tag])
        THEN ResolveUptimeTimestamps(byTag[tag]).lines
        ELSE byTag[tag]]

timestamped(lines) == {i \in DOMAIN lines : lines[i].Timestamp.present}

\* the earliest timestamp of a file that has one: its milliseconds and
\* its nanoseconds
firstTime(lines) == Min({lines[i].Timestamp.Time : i \in timestamped(lines)})
firstNanos(lines) ==
    Min({lines[i].Timestamp.Nanos :
            i \in {j \in timestamped(lines) : lines[j].Timestamp.Time = firstTime(lines)}})

\* offsetHours + 0.5 converted with int(), which truncates toward zero; the
\* offset is a number of milliseconds and a few nanoseconds, which matter
\* when the milliseconds alone give a whole number
truncDiv(a, b) == IF a >= 0 THEN a \div b ELSE -((-a) \div b)
roundedHours(offset, nanos) ==
    LET x == 2 * offset + Hour
        q == truncDiv(x, 2 * Hour)
    IN  IF x % (2 * Hour) # 0 THEN q
        ELSE IF x > 0 /\ nanos < 0 THEN q - 1
        ELSE IF x < 0 /\ nanos > 0 THEN q + 1
        ELSE q

noReference == [found |-> FALSE, tag |-> "", time |-> 0, nanos |-> 0]

\* a search that lets the last tag of a tie win
RECURSIVE mostTimestampsLast(_, _, _, _, _)
mostTimestampsLast(byTag, order, k, maxTimestampCount, best) ==
    IF k > Len(order) THEN best
    ELSE LET lines == byTag[order[k]]
             count == Cardinality(timestamped(lines))
         IN  IF count >= maxTimestampCount /\ count > 0
             THEN mostTimestampsLast(byTag, order, k + 1, count,
                      [found |-> TRUE, tag |-> order[k], time |-> firstTime(lines),
                       nanos |-> firstNanos(lines)])
             ELSE mostTimestampsLast(byTag, order, k + 1, maxTimestampCount, best)

\* lines 652-673: range over the map in the given order, keeping the first
\* tag with a strictly greater count
RECURSIVE mostTimestamps(_, _, _, _, _)
mostTimestamps(byTag, order, k, maxTimestampCount, best) ==
    IF k > Len(order) THEN best
    ELSE LET lines == byTag[order[k]]
             count == Cardinality(timestamped(lines))
         IN  IF count > maxTimestampCount
             THEN mostTimestamps(byTag, order, k + 1, count,
                      [found |-> TRUE, tag |-> order[k], time |-> firstTime(lines),
                       nanos |-> firstNanos(lines)])
             ELSE mostTimestamps(byTag, order, k + 1, maxTimestampCount, best)

\* lines 636-678
chooseReference(byTag, order) ==
    IF "daemon" \in DOMAIN byTag /\ timestamped(byTag["daemon"]) # {}
    THEN [found |-> TRUE, tag |-> "daemon", time |-> firstTime(byTag["daemon"]),
          nanos |-> firstNanos(byTag["daemon"])]
    ELSE mostTimestamps(byTag, order, 1, 0, noReference)

\* whether the reference search ranges over the map at all
rangesOverMap(byTag) ==
    ~("daemon" \in DOMAIN byTag /\ timestamped(byTag["daemon"]) # {})

\* an offsets loop without the check for an entry that is already there
autoOffsetsOverwriting(byTag, offsets, ref) ==
    LET computed == {tag \in DOMAIN byTag :
                        tag # ref.tag /\ timestamped(byTag[tag]) # {}}
    IN  [tag \in DOMAIN offsets \cup computed |->
            IF tag \in computed
            THEN roundedHours(ref.time - firstTime(byTag[tag]),
                              ref.nanos - firstNanos(byTag[tag])) * Hour
            ELSE offsets[tag]]

\* lines 680-711: the offsets table after the call
autoOffsets(byTag, offsets, ref) ==
    LET computed == {tag \in DOMAIN byTag :
                        /\ tag \notin DOMAIN offsets
                        /\ tag # ref.tag
                        /\ timestamped(byTag[tag]) # {}}
    IN  [tag \in DOMAIN offsets \cup computed |->
            IF tag \in DOMAIN offsets
            THEN offsets[tag]
            ELSE roundedHours(ref.time - firstTime(byTag[tag]),
                              ref.nanos - firstNanos(byTag[tag])) * Hour]

\* a variant that reports an error when it finds no reference
calculateAutoOffsetsStrict(byTag, offsets, order) ==
    LET ref == chooseReference(byTag, order)
    IN  IF ~ref.found
        THEN [err |-> TRUE, fileOffsets |-> offsets, reference |-> ref]
        ELSE [err |-> FALSE, fileOffsets |-> autoOffsets(byTag, offsets, ref),
              reference |-> ref]

\* a variant that takes the reference instant after the manual offset of
\* the reference tag is added to it
calculateAutoOffsetsShifted(byTag, offsets, order) ==
    LET found == chooseReference(byTag, order)
        ref == [found EXCEPT !.time =
                   IF found.tag \in DOMAIN offsets THEN @ + offsets[found.tag] ELSE @]
    IN  IF ~ref.found
        THEN [err |-> FALSE, fileOffsets |-> offsets, reference |-> ref]
        ELSE [err |-> FALSE, fileOffsets |-> autoOffsets(byTag, offsets, ref),
              reference |-> ref]

\* every return of the function returns nil
calculateAutoOffsets(byTag, offsets, order) ==
    LET ref == chooseReference(byTag, order)
    IN  IF ~ref.found
        THEN [err |-> FALSE, fileOffsets |-> offsets, reference |-> ref]
        ELSE [err |-> FALSE, fileOffsets |-> autoOffsets(byTag, offsets, ref),
              reference |-> ref]

\* an interleaver that calculates the offsets whatever autoAlign says
alignAlways(enabled, byTag, offsets, order) ==
    calculateAutoOffsets(byTag, offsets, order)

\* lines 591-596: the offsets are calculated only when autoAlign is set
align(enabled, byTag, offsets, order) ==
    IF enabled
    THEN calculateAutoOffsets(byTag, offsets, order)
    ELSE [err |-> FALSE, fileOffsets |-> offsets, reference |-> noReference]

\* lines 598-608: shift every timestamp by its tag's entry (zero when the
\* tag has none) and append the files in the order the map is ranged over
offsetOf(offsets, tag) == IF tag \in DOMAIN offsets THEN offsets[tag] ELSE 0

\* a loop that appends only the lines it shifted
applyOffsetTimestamped(lines, offset) ==
    SelectSeq([i \in DOMAIN lines |->
                  [lines[i] EXCEPT !.Timestamp.Time = @ + offset]],
              LAMBDA l : l.Timestamp.present)

\* a loop that shifts a timestamp again for every timestamped line that
\* precedes it in its file
applyOffsetTwice(lines, offset) ==
    [i \in DOMAIN lines |->
        IF lines[i].Timestamp.present
        THEN [lines[i] EXCEPT !.Timestamp.Time =
                @ + offset * Cardinality({j \in 1..i : lines[j].Timestamp.present})]
        ELSE lines[i]]

applyOffset(lines, offset) ==
    [i \in DOMAIN lines |->
        IF lines[i].Timestamp.present
        THEN [lines[i] EXCEPT !.Timestamp.Time = @ + offset]
        ELSE lines[i]]

RECURSIVE appendAll(_, _, _, _)
appendAll(byTag, offsets, order, k) ==
    IF k > Len(order) THEN <<>>
    ELSE applyOffset(byTag[order[k]], offsetOf(offsets, order[k]))
            \o appendAll(byTag, offsets, order, k + 1)

\* a comparison that orders timestamps the wrong way round
lessReversed(a, b) ==
    IF ~a.Timestamp.present /\ ~b.Timestamp.present
    THEN a.LineNumber < b.LineNumber
    ELSE IF ~a.Timestamp.present THEN FALSE
    ELSE IF ~b.Timestamp.present THEN TRUE
    ELSE Before(b.Timestamp, a.Timestamp)

\* a comparison that does not look at the line numbers of two lines
\* without a timestamp
lessNoLineNumber(a, b) ==
    IF ~a.Timestamp.present /\ ~b.Timestamp.present
    THEN FALSE
    ELSE IF ~a.Timestamp.present THEN FALSE
    ELSE IF ~b.Timestamp.present THEN TRUE
    ELSE Before(a.Timestamp, b.Timestamp)

\* lines 611-627: the comparison handed to sort.Slice
less(a, b) ==
    IF ~a.Timestamp.present /\ ~b.Timestamp.present
    THEN a.LineNumber < b.LineNumber
    ELSE IF ~a.Timestamp.present THEN FALSE
    ELSE IF ~b.Timestamp.present THEN TRUE
    ELSE Before(a.Timestamp, b.Timestamp)

\* sort.Slice: some permutation of the slice in which no element is less
\* than an earlier one; the order of elements that compare equal is not
\* specified (the sort is not stable)
RECURSIVE sortSlice(_, _)
sortSlice(s, idx) ==
    IF idx = {} THEN {<<>>}
    ELSE UNION {{<<s[i]>> \o rest : rest \in sortSlice(s, idx \ {i})} :
                   i \in {j \in idx : \A k \in idx : ~less(s[k], s[j])}}

FormatLine(line) ==
    IF ~line.Timestamp.present
    THEN <<line.OriginalLine>>
    ELSE <<FormatTimestamp(line.Timestamp), line.Tag, line.OriginalLine>>

\* the orders in which a range over a map with these keys can visit them
rangeOrders(keys) ==
    {o \in [1..Cardinality(keys) -> keys] : \A i, j \in DOMAIN o : i # j => o[i] # o[j]}

----------------------------------------------------------------------------
(* Inputs *)

Tenth == Hour \div 10

\* the line texts of the pipeline runs
PipelineTexts ==
    {Plain, Compact(0), Compact(34 * Tenth), Uptime(5000)}

\* the line texts of the uptime resolution runs
ResolveTexts ==
    {Plain, Compact(34 * Tenth), Epoch(25 * Tenth),
     Uptime(0), Uptime(5000), Uptime(5100), Uptime(7000)}

\* the line texts of the parsing runs: every combination of a head token,
\* a bracketed integer and a bracketed decimal
ParseTexts ==
    {Text(h, IF h = "none" THEN 0 ELSE 34 * Tenth,
          e # "no", e = "fits", IF e = "fits" THEN 25 * Tenth ELSE 0,
          u # "no", u = "fits", IF u = "fits" THEN 5000 ELSE 0) :
        h \in {"none", "compact", "full"},
        e \in {"no", "fits", "overflow"},
        u \in {"no", "fits", "overflow"}}

\* the line texts of the runs with read failures
IOTexts == {Plain, Compact(0), Uptime(5000)}

\* the line texts of the runs with calendar fields in and out of range,
\* with and without a bracketed token of a later convention
RangeTexts ==
    LET heads == {CompactAt(d, h, m) : d \in {0, 1}, h \in {3, 25}, m \in {24, 61}}
                   \cup {FullAt(d, h, m) : d \in {0, 1}, h \in {3, 25}, m \in {24, 61}}
    IN  heads \cup {WithUptime(x, 5000) : x \in heads}
              \cup {WithEpoch(x, 25 * Tenth) : x \in heads}

\* the line texts of the runs that follow Process phase by phase
PhaseTexts == {Compact(0), Compact(34 * Tenth), Uptime(5000)}

\* the -offset options of the runs
ManualTags == {"e825"}
ManualHours == {5}

RECURSIVE totalLines(_, _)
totalLines(dir, tags) ==
    IF tags = {} THEN 0
    ELSE LET tag == CHOOSE x \in tags : TRUE
         IN  Len(dir[tag]) + totalLines(dir, tags \ {tag})

\* the directories over the given tags, every file with at least one line
\* of the given texts, holding at most n lines in all
Directories(tags, texts, n) ==
    UNION {{dir \in [present -> UNION {[1..k -> texts] :
                                          k \in 1..(n + 1 - Cardinality(present))}] :
               totalLines(dir, present) <= n} :
           present \in {p \in SUBSET tags : Cardinality(p) <= n}}

----------------------------------------------------------------------------
(* The program: main builds an Interleaver, configures it and calls        *)
(* Process once.                                                           *)

\* NewInterleaver on a directory
NewInterleaver(dir) ==
    /\ files = dir
    /\ autoAlign = TRUE
    /\ fileOffsets = <<>>
    /\ pc = "config"
    /\ manualOffsets = <<>>
    /\ parsed = <<>>
    /\ linesByTag = <<>>
    /\ rangeOrder = <<>>
    /\ reference = noReference
    /\ allLines = <<>>
    /\ result = <<>>
    /\ err = "nil"
    /\ runs = <<>>

\* a directory all of whose files can be read
Readable == dirReadable = TRUE /\ unreadable = {}

Init ==
    \E dir \in Directories(Tags, PipelineTexts, MaxTotal) : NewInterleaver(dir) /\ Readable

InitParse ==
    \E dir \in Directories({"daemon"}, ParseTexts, MaxParse) : NewInterleaver(dir) /\ Readable

InitResolve ==
    \E dir \in Directories({"daemon"}, ResolveTexts, MaxResolve) : NewInterleaver(dir) /\ Readable

InitRerun ==
    \E dir \in Directories(Tags, PipelineTexts, MaxRerun) : NewInterleaver(dir) /\ Readable

\* a file of n lines that holds the given texts at the given positions and
\* lines without any token elsewhere
placed(n, marks) == [i \in 1..n |-> IF i \in DOMAIN marks THEN marks[i] ELSE Plain]

\* long files with one uptime line in the middle and one or two anchors
\* with different instants anywhere else
Middle == (MaxWindow + 1) \div 2

WindowFiles ==
    {placed(MaxWindow,
            [i \in A \cup {Middle} |->
                IF i = Middle THEN text
                ELSE IF i = Min(A) THEN Compact(34 * Tenth) ELSE Compact(0)]) :
        text \in {Uptime(0), Uptime(5000)},
        A \in {B \in SUBSET ((1..MaxWindow) \ {Middle}) : Cardinality(B) \in {1, 2}}}

InitWindow ==
    \E file \in WindowFiles :
        NewInterleaver([tag \in {"daemon"} |-> file]) /\ Readable

\* files with one anchor, with or without an uptime token of its own, and
\* one or two uptime lines around it
PairingFiles ==
    {placed(MaxPairing,
            [i \in U \cup {a} |->
                IF i = a THEN anchor
                ELSE IF i = Min(U) THEN first ELSE second]) :
        a \in 1..MaxPairing,
        anchor \in {Compact(34 * Tenth), WithUptime(Compact(34 * Tenth), 9000)},
        first \in {Uptime(0), Uptime(5000)}, second \in {Uptime(0), Uptime(7000)},
        U \in {B \in SUBSET (1..MaxPairing) : Cardinality(B) \in {1, 2}}}

InitPairing ==
    \E file \in PairingFiles :
        /\ \E i \in DOMAIN file : file[i].hasUptime
        /\ NewInterleaver([tag \in {"daemon"} |-> file]) /\ Readable

InitRange ==
    \E dir \in Directories({"daemon"}, RangeTexts, MaxRange) : NewInterleaver(dir) /\ Readable

InitPhases ==
    \E dir \in Directories(Tags, PhaseTexts, MaxPhases) : NewInterleaver(dir) /\ Readable

\* directories that cannot be read or hold files that cannot be read
InitIO ==
    \E dir \in Directories(Tags, IOTexts, MaxIO) :
        \E dirOk \in BOOLEAN, failing \in SUBSET DOMAIN dir :
            NewInterleaver(dir) /\ dirReadable = dirOk /\ unreadable = failing

SetFileOffset(tag, hours) ==
    /\ pc = "config"
    /\ fileOffsets' = (tag :> hours * Hour) @@ fileOffsets
    /\ manualOffsets' = (tag :> hours * Hour) @@ manualOffsets
    /\ UNCHANGED <<files, dirReadable, unreadable, autoAlign, pc, parsed,
                   linesByTag, rangeOrder, reference, allLines, result, err, runs>>

SetAutoAlign(enabled) ==
    /\ pc = "config"
    /\ autoAlign' = enabled
    /\ UNCHANGED <<files, dirReadable, unreadable, fileOffsets, pc, manualOffsets,
                   parsed, linesByTag, rangeOrder, reference, allLines, result,
                   err, runs>>

\* the orders of the reference search of this run: none when alignment is
\* off or the daemon file settles the reference
searchOrders(byTag) ==
    IF autoAlign /\ rangesOverMap(byTag) THEN rangeOrders(DOMAIN byTag) ELSE {<<>>}

\* Process, lines 541-570: the error of os.ReadDir or of the first file
\* that cannot be parsed, "nil" when everything was read
readErrorDirOnly(dirOk, failing) ==
    IF ~dirOk THEN "failed to read log directory" ELSE "nil"

readError(dirOk, failing) ==
    IF ~dirOk THEN "failed to read log directory"
    ELSE IF failing # {} THEN "failed to parse file"
    ELSE "nil"

\* a return of Process with an error: no lines; main prints the error and
\* exits
Fail(e) ==
    /\ result' = <<>>
    /\ err' = e
    /\ pc' = "failed"
    /\ UNCHANGED <<fileOffsets, parsed, linesByTag, rangeOrder, reference,
                   allLines, runs>>

Process ==
    /\ pc \in {"config", "rerun"}
    /\ LET byTag == [tag \in DOMAIN files |-> parseFile(files[tag], tag)]
           resolved == resolveAll(byTag)
       IN  IF readError(dirReadable, unreadable \cap DOMAIN files) # "nil"
           THEN Fail(readError(dirReadable, unreadable \cap DOMAIN files))
           ELSE IF resolveError(byTag)
           THEN Fail("failed to resolve uptime timestamps")
           ELSE
           \E order1 \in searchOrders(resolved), order2 \in rangeOrders(DOMAIN files) :
             LET auto == align(autoAlign, resolved, fileOffsets, order1)
                 all == appendAll(resolved, auto.fileOffsets, order2, 1)
             IN  IF auto.err
                 THEN Fail("failed to calculate auto offsets")
                 ELSE \E sorted \in sortSlice(all, DOMAIN all) :
                   /\ parsed' = byTag
                   /\ linesByTag' = resolved
                   /\ rangeOrder' = order1
                   /\ reference' = auto.reference
                   /\ fileOffsets' = auto.fileOffsets
                   /\ allLines' = all
                   /\ result' = sorted
                   /\ err' = "nil"
                   /\ runs' = Append(runs, [i \in DOMAIN sorted |-> FormatLine(sorted[i])])
                   /\ pc' = "done"
    /\ UNCHANGED <<files, dirReadable, unreadable, autoAlign, manualOffsets>>

\* main started again on the same directory with the same command line
Rerun ==
    /\ pc = "done"
    /\ Len(runs) < MaxRuns
    /\ pc' = "rerun"
    /\ fileOffsets' = manualOffsets
    /\ UNCHANGED <<files, dirReadable, unreadable, autoAlign, manualOffsets,
                   parsed, linesByTag, rangeOrder, reference, allLines, result,
                   err, runs>>

----------------------------------------------------------------------------
(* Process, phase by phase: the loops of lines 549-570 (parse), 572-589    *)
(* (resolve), the call of lines 591-596 (align), the loop of lines 598-608 *)
(* (apply) and the sort of lines 611-627, one step for each file a loop    *)
(* visits.                                                                 *)

\* os.ReadDir returns the entries sorted by filename
readDirOrder == <<"daemon", "e825", "e830">>

\* the place of a tag in that order
readDirPlace(tag) == CHOOSE k \in DOMAIN readDirOrder : readDirOrder[k] = tag

\* a pipeline that hands a file on as soon as one file is parsed
parsingStarted == DOMAIN parsed # {}

\* the parse loop has visited every file
parsingComplete == DOMAIN parsed = DOMAIN files

\* the resolve loop has visited every tag of the map
resolutionComplete == DOMAIN linesByTag = DOMAIN files

\* the tags whose lines the apply loop has appended
appliedTags == {allLines[i].Tag : i \in DOMAIN allLines}

ParseStep ==
    /\ pc \in {"config", "parsing"}
    /\ ~parsingComplete
    /\ \E tag \in DOMAIN files \ DOMAIN parsed :
          /\ \A other \in DOMAIN files \ DOMAIN parsed :
                readDirPlace(tag) <= readDirPlace(other)
          /\ parsed' = (tag :> parseFile(files[tag], tag)) @@ parsed
    /\ pc' = "parsing"
    /\ UNCHANGED <<files, dirReadable, unreadable, autoAlign, fileOffsets,
                   manualOffsets, linesByTag, rangeOrder, reference, allLines,
                   result, err, runs>>

ResolveStep(tag) ==
    /\ pc \in {"config", "parsing", "resolving"}
    /\ parsingComplete
    /\ tag \in DOMAIN parsed \ DOMAIN linesByTag
    /\ linesByTag' = (tag :> resolveAll([t \in {tag} |-> parsed[t]])[tag]) @@ linesByTag
    /\ pc' = "resolving"
    /\ UNCHANGED <<files, dirReadable, unreadable, autoAlign, fileOffsets,
                   manualOffsets, parsed, rangeOrder, reference, allLines,
                   result, err, runs>>

AlignStep ==
    /\ pc \in {"config", "parsing", "resolving"}
    /\ parsingComplete
    /\ resolutionComplete
    /\ \E order1 \in searchOrders(linesByTag) :
          LET auto == align(autoAlign, linesByTag, fileOffsets, order1)
          IN  /\ fileOffsets' = auto.fileOffsets
              /\ reference' = auto.reference
              /\ rangeOrder' = order1
    /\ pc' = "applying"
    /\ UNCHANGED <<files, dirReadable, unreadable, autoAlign, manualOffsets,
                   parsed, linesByTag, allLines, result, err, runs>>

ApplyStep(tag) ==
    /\ pc = "applying"
    /\ tag \in DOMAIN linesByTag \ appliedTags
    /\ allLines' = allLines \o applyOffset(linesByTag[tag], offsetOf(fileOffsets, tag))
    /\ UNCHANGED <<files, dirReadable, unreadable, autoAlign, fileOffsets, pc,
                   manualOffsets, parsed, linesByTag, rangeOrder, reference,
                   result, err, runs>>

SortStep ==
    /\ pc = "applying"
    /\ appliedTags = DOMAIN files
    /\ \E sorted \in sortSlice(allLines, DOMAIN allLines) :
          /\ result' = sorted
          /\ runs' = Append(runs, [i \in DOMAIN sorted |-> FormatLine(sorted[i])])
    /\ err' = "nil"
    /\ pc' = "done"
    /\ UNCHANGED <<files, dirReadable, unreadable, autoAlign, fileOffsets,
                   manualOffsets, parsed, linesByTag, rangeOrder, reference,
                   allLines>>

Configure ==
    \/ \E tag \in ManualTags, hours \in ManualHours : SetFileOffset(tag, hours)
    \/ \E enabled \in BOOLEAN : SetAutoAlign(enabled)

Next == Configure \/ Process

NextRerun == Configure \/ Process \/ Rerun

NextPhases ==
    \/ Configure
    \/ ParseStep
    \/ \E tag \in Tags : ResolveStep(tag)
    \/ AlignStep
    \/ \E tag \in Tags : ApplyStep(tag)
    \/ SortStep

Spec == Init /\ [][Next]_vars

SpecParse == InitParse /\ [][Next]_vars

SpecResolve == InitResolve /\ [][Next]_vars

SpecRerun == InitRerun /\ [][NextRerun]_vars

SpecIO == InitIO /\ [][Next]_vars

SpecWindow == InitWindow /\ [][Next]_vars

SpecPairing == InitPairing /\ [][Next]_vars

SpecPhases == InitPhases /\ [][NextPhases]_vars

SpecRange == InitRange /\ [][Next]_vars

----------------------------------------------------------------------------
(* Properties of the merge *)

Done == pc = "done"

\* C1: in the sequence returned by Process the lines that carry a timestamp
\* are ordered non-decreasing by their offset-adjusted timestamp, for every
\* set of input files and every offset configuration.
TimestampsNonDecreasing ==
    Done => \A i, j \in DOMAIN result :
                (i < j /\ result[i].Timestamp.present /\ result[j].Timestamp.present)
                    => ~Before(result[j].Timestamp, result[i].Timestamp)

\* a run that shifted a file and had to reorder timestamped lines of two files
ReorderedTimestamps ==
    /\ Done
    /\ \E tag \in DOMAIN fileOffsets : fileOffsets[tag] # 0
    /\ \E i, j \in DOMAIN allLines :
          /\ i < j
          /\ allLines[i].Timestamp.present /\ allLines[j].Timestamp.present
          /\ allLines[i].Tag # allLines[j].Tag
          /\ allLines[i].Timestamp.Time > allLines[j].Timestamp.Time
    /\ \E i \in DOMAIN linesByTag : \E n \in DOMAIN linesByTag[i] :
          linesByTag[i][n].Timestamp.present /\ ~parsed[i][n].Timestamp.present

\* C2: in the sequence returned by Process every line without a timestamp
\* comes after every line with a timestamp, and two lines of the same file
\* without a timestamp come in ascending order of their line numbers.
UntimestampedLast ==
    Done => \A i, j \in DOMAIN result :
                /\ (result[i].Timestamp.present /\ ~result[j].Timestamp.present) => i < j
                /\ (/\ i < j
                    /\ ~result[i].Timestamp.present /\ ~result[j].Timestamp.present
                    /\ result[i].Tag = result[j].Tag)
                       => result[i].LineNumber < result[j].LineNumber

\* a run in which lines without a timestamp were moved behind a timestamped
\* line and two of them belong to one file
MovedUntimestamped ==
    /\ Done
    /\ \E i, j \in DOMAIN allLines :
          i < j /\ ~allLines[i].Timestamp.present /\ allLines[j].Timestamp.present
    /\ \E i, j \in DOMAIN result :
          /\ i < j
          /\ ~result[i].Timestamp.present /\ ~result[j].Timestamp.present
          /\ result[i].Tag = result[j].Tag

\* C3: the sequence returned by Process holds every line of every processed
\* file exactly once, lines that match no convention included, and each
\* line's text, tag and line number are those it had when it was parsed.
EveryLineOnce ==
    Done =>
      /\ Len(result) = totalLines(files, DOMAIN files)
      /\ \A tag \in DOMAIN files : \A n \in DOMAIN files[tag] :
            /\ Cardinality({i \in DOMAIN result :
                               result[i].Tag = tag /\ result[i].LineNumber = n}) = 1
            /\ \A i \in DOMAIN result :
                  (result[i].Tag = tag /\ result[i].LineNumber = n)
                     => /\ result[i].OriginalLine = files[tag][n]
                        /\ result[i].OriginalLine = parsed[tag][n].OriginalLine
                        /\ parsed[tag][n].Tag = tag
                        /\ parsed[tag][n].LineNumber = n

\* a run over two files with a line that matches no convention, a shifted
\* file and a reordering
MergedWithPlainLine ==
    /\ Done
    /\ Cardinality(DOMAIN files) >= 2
    /\ \E i \in DOMAIN result : result[i].OriginalLine = Plain
    /\ \E tag \in DOMAIN fileOffsets : fileOffsets[tag] # 0
    /\ result # allLines

\* C4: running the pipeline (Process, then FormatLine on each line) twice on
\* the same files with the same configuration gives the same order of lines
\* and the same formatted text, also when two files have equally many
\* timestamped lines or lines of different files have equal timestamps.
RunsIdentical ==
    \A a, b \in DOMAIN runs : runs[a] = runs[b]

----------------------------------------------------------------------------
(* Properties of uptime resolution *)

\* the lines ParseLine left with an uptime match and no timestamp
uptimeOnly(tag) ==
    {n \in DOMAIN parsed[tag] :
        ParseUptime(files[tag][n]).ok /\ ~parsed[tag][n].Timestamp.present}

\* C5: after ResolveUptimeTimestamps has run on a file that holds at least
\* one anchor, every line of the file that was parsed as uptime-only, for
\* any uptime value including 0.000, carries an absolute timestamp.
UptimeOnlyResolved ==
    Done => \A tag \in DOMAIN parsed :
                (hasUptime(parsed[tag]) /\ anchorIndices(parsed[tag]) # {})
                    => \A n \in uptimeOnly(tag) :
                          /\ linesByTag[tag][n].Timestamp.present
                          /\ linesByTag[tag][n].Timestamp.Type = "TypeAbsolute"

----------------------------------------------------------------------------
(* Properties of automatic alignment *)

\* the tags calculateAutoOffsets computes an offset for
autoAligned ==
    {tag \in DOMAIN linesByTag :
        /\ tag \notin DOMAIN manualOffsets
        /\ tag # reference.tag
        /\ timestamped(linesByTag[tag]) # {}}

\* a difference in milliseconds as the nearest whole number of hours,
\* halves going up
roundHalfUp(offset) == (2 * offset + Hour) \div (2 * Hour)

\* C6: for every non-reference file without a manual offset that has a
\* timestamp, the computed offset is the reference instant minus the file's
\* earliest timestamp, in hours, rounded to the nearest hour with halves
\* rounded up, for positive and negative differences alike
\* (3.4 -> 3, 2.5 -> 3, -3.4 -> -3, -3.6 -> -4).
OffsetRoundedHalfUp ==
    (Done /\ reference.found) =>
        \A tag \in autoAligned :
            /\ tag \in DOMAIN fileOffsets
            /\ fileOffsets[tag] =
                  roundHalfUp(reference.time - firstTime(linesByTag[tag])) * Hour

\* C7: an entry stored by SetFileOffset is never overwritten by automatic
\* alignment: after Process the entry of every manually configured tag is
\* the value supplied, whatever the file and the reference file contain.
ManualOffsetKept ==
    Done => \A tag \in DOMAIN manualOffsets :
                tag \in DOMAIN fileOffsets /\ fileOffsets[tag] = manualOffsets[tag]

\* a run with a reference in which alignment would have computed another
\* value for a manually configured file
ManualOffsetDiffers ==
    /\ Done
    /\ reference.found
    /\ \E tag \in DOMAIN manualOffsets :
          /\ tag \in DOMAIN linesByTag
          /\ tag # reference.tag
          /\ timestamped(linesByTag[tag]) # {}
          /\ roundedHours(reference.time - firstTime(linesByTag[tag]),
                          reference.nanos - firstNanos(linesByTag[tag])) * Hour
                # manualOffsets[tag]
    /\ autoAligned # {}

\* number of timestamped lines of a tag's file
timestampCount(tag) == Cardinality(timestamped(linesByTag[tag]))

\* the tags whose files have the greatest number of timestamped lines
fullest ==
    {tag \in DOMAIN linesByTag :
        /\ timestampCount(tag) > 0
        /\ \A other \in DOMAIN linesByTag : timestampCount(other) <= timestampCount(tag)}

daemonHasTimestamp ==
    "daemon" \in DOMAIN linesByTag /\ timestamped(linesByTag["daemon"]) # {}

\* C8: automatic alignment takes the file tagged "daemon" as reference when
\* that file has a timestamped line; otherwise the file with the greatest
\* number of timestamped lines, the first one encountered winning a tie; the
\* reference instant is the earliest timestamp of the chosen file, and no
\* automatic offset is stored for the reference tag.
ReferenceChoice ==
    (Done /\ autoAlign) =>
        /\ daemonHasTimestamp => (reference.found /\ reference.tag = "daemon")
        /\ (~daemonHasTimestamp /\ fullest = {}) => ~reference.found
        /\ (~daemonHasTimestamp /\ fullest # {}) =>
              /\ reference.found
              /\ \E k \in DOMAIN rangeOrder :
                    /\ rangeOrder[k] = reference.tag
                    /\ rangeOrder[k] \in fullest
                    /\ \A m \in 1..(k - 1) : rangeOrder[m] \notin fullest
        /\ reference.found =>
              /\ reference.time = firstTime(linesByTag[reference.tag])
              /\ reference.tag \in DOMAIN fileOffsets
                    => /\ reference.tag \in DOMAIN manualOffsets
                       /\ fileOffsets[reference.tag] = manualOffsets[reference.tag]

\* a run without a usable daemon file in which two files tie for the
\* greatest number of timestamped lines and the second of them in the
\* order of the search did not become the reference
ReferenceTie ==
    /\ Done /\ autoAlign
    /\ ~daemonHasTimestamp
    /\ Cardinality(fullest) >= 2
    /\ \E k \in DOMAIN rangeOrder :
          /\ k > 1
          /\ rangeOrder[k] = reference.tag
    /\ reference.time # 0
    /\ autoAligned # {}

----------------------------------------------------------------------------
(* Properties of ParseLine *)

\* the first of the four conventions, in the order absolute-compact, full
\* date-time, epoch-in-brackets, uptime-in-brackets, that the text matches;
\* a bracketed number too long for its integer type is no match
firstConvention(line) ==
    IF line.head = "compact" THEN "compact"
    ELSE IF line.head = "full" THEN "full"
    ELSE IF line.hasEpoch /\ line.epochFits THEN "epoch"
    ELSE IF line.hasUptime /\ line.uptimeFits THEN "uptime"
    ELSE "none"

\* C9: ParseLine tries the conventions in the fixed order absolute-compact,
\* full date-time, epoch-in-brackets, uptime-in-brackets and the first
\* match wins: a line that matches an earlier convention gets that
\* convention's timestamp and records no uptime value, also when it holds a
\* later convention's token.
FirstMatchWins ==
    Done => \A tag \in DOMAIN parsed : \A n \in DOMAIN parsed[tag] :
                LET line == files[tag][n]
                    logLine == parsed[tag][n]
                IN  /\ firstConvention(line) \in {"compact", "full"} =>
                          /\ logLine.Timestamp = Timestamp(line.t, "TypeAbsolute", 0)
                          /\ logLine.UptimeSec = 0
                    /\ firstConvention(line) = "epoch" =>
                          /\ logLine.Timestamp = Timestamp(line.epoch, "TypeLinux", 0)
                          /\ logLine.UptimeSec = 0
                    /\ firstConvention(line) = "uptime" =>
                          /\ ~logLine.Timestamp.present
                          /\ logLine.UptimeSec = line.uptime

\* a parsed file with a full date-time line that also holds an epoch and an
\* uptime token, and a line whose epoch token wins over its uptime token
ParsedLaterTokens ==
    /\ Done
    /\ \E tag \in DOMAIN parsed : \E n, m \in DOMAIN parsed[tag] :
          /\ files[tag][n].head = "full"
          /\ files[tag][n].hasUptime /\ files[tag][n].uptimeFits
          /\ files[tag][n].hasEpoch /\ files[tag][n].epochFits
          /\ parsed[tag][n].Timestamp.present
          /\ files[tag][m].head = "none"
          /\ files[tag][m].hasEpoch /\ files[tag][m].epochFits
          /\ files[tag][m].hasUptime /\ files[tag][m].uptimeFits
          /\ parsed[tag][m].Timestamp.Type = "TypeLinux"

\* C10: ParseLine never fails: for every text it returns a record that has
\* an absolute instant, or only an uptime value, or neither; a text that
\* matches none of the conventions gives a record without timestamp and
\* without uptime, and the remaining lines of the file are parsed.
ParseLineTotal ==
    Done => \A tag \in DOMAIN files :
                /\ Len(parsed[tag]) = Len(files[tag])
                /\ \A n \in DOMAIN parsed[tag] :
                      /\ parsed[tag][n].OriginalLine = files[tag][n]
                      /\ parsed[tag][n].LineNumber = n
                      /\ ~(parsed[tag][n].Timestamp.present /\ parsed[tag][n].UptimeSec # 0)
                      /\ firstConvention(files[tag][n]) = "none" =>
                            /\ ~parsed[tag][n].Timestamp.present
                            /\ parsed[tag][n].UptimeSec = 0

\* a parsed file whose first line matches no convention, its bracketed
\* numbers being too long, and whose second line has a timestamp
ParsedAfterUnmatched ==
    /\ Done
    /\ \E tag \in DOMAIN parsed :
          /\ Len(parsed[tag]) >= 2
          /\ files[tag][1].head = "none"
          /\ files[tag][1].hasEpoch /\ ~files[tag][1].epochFits
          /\ files[tag][1].hasUptime /\ ~files[tag][1].uptimeFits
          /\ ~parsed[tag][1].Timestamp.present /\ parsed[tag][1].UptimeSec = 0
          /\ parsed[tag][2].Timestamp.present

----------------------------------------------------------------------------
(* Properties of error handling *)

\* Process has returned, with or without an error
Finished == pc \in {"done", "failed"}

\* the files with an uptime line and no anchor, for which
\* ResolveUptimeTimestamps is called and fails
noAnchorTags ==
    {tag \in DOMAIN files :
        /\ hasUptime(parseFile(files[tag], tag))
        /\ anchorIndices(parseFile(files[tag], tag)) = {}}

\* C11: when a file has uptime lines and no anchor, its resolution fails
\* without aborting the run: the file's uptime lines stay without a
\* timestamp, Process returns no error, the other files are still resolved,
\* aligned and merged, and the lines of the unresolved file are in the
\* output.
UnresolvedFileKept ==
    (Finished /\ noAnchorTags # {}) =>
        /\ pc = "done" /\ err = "nil"
        /\ \A tag \in noAnchorTags :
              /\ \A n \in uptimeOnly(tag) : ~linesByTag[tag][n].Timestamp.present
              /\ \A n \in DOMAIN files[tag] : \E i \in DOMAIN result :
                    /\ result[i].Tag = tag /\ result[i].LineNumber = n
                    /\ result[i].OriginalLine = files[tag][n]
        /\ \A tag \in DOMAIN files \ noAnchorTags :
              /\ hasUptime(parsed[tag])
                    => linesByTag[tag] = ResolveUptimeTimestamps(parsed[tag]).lines
              /\ \A n \in DOMAIN files[tag] : \E i \in DOMAIN result :
                    result[i].Tag = tag /\ result[i].LineNumber = n
        /\ (autoAlign /\ \E tag \in DOMAIN linesByTag : timestamped(linesByTag[tag]) # {})
              => reference.found /\ autoAligned \subseteq DOMAIN fileOffsets

\* a run over a file that cannot be resolved and a file that was resolved
\* and one that was shifted
UnresolvedBesideResolved ==
    /\ Done
    /\ noAnchorTags # {}
    /\ \E tag \in DOMAIN files \ noAnchorTags : \E n \in DOMAIN parsed[tag] :
          ~parsed[tag][n].Timestamp.present /\ linesByTag[tag][n].Timestamp.present
    /\ \E tag \in noAnchorTags : uptimeOnly(tag) # {}

\* no file holds an anchor
noAnchors ==
    \A tag \in DOMAIN files : anchorIndices(parseFile(files[tag], tag)) = {}

\* C12 as stated: Process aborts the run with an error when no input file
\* holds an absolute timestamp that could anchor uptime lines.
AbortsWithoutAnchors ==
    (Finished /\ noAnchors) => (err # "nil" /\ result = <<>>)

\* C12 as the code has it: the absence of anchors does not abort the run.
\* When no input file holds an anchor and the files can be read, Process
\* returns no error and returns every line; the uptime lines have no
\* timestamp.
RunsWithoutAnchors ==
    (Finished /\ noAnchors /\ Readable) =>
        /\ pc = "done" /\ err = "nil"
        /\ Len(result) = totalLines(files, DOMAIN files)
        /\ \A tag \in DOMAIN files : \A n \in uptimeOnly(tag) :
              ~linesByTag[tag][n].Timestamp.present

\* a completed run over files with uptime lines and no anchor anywhere
CompletedWithoutAnchors ==
    /\ Done /\ err = "nil"
    /\ noAnchors
    /\ Cardinality(noAnchorTags) >= 2
    /\ result # <<>>


\* C13: if the log directory cannot be read, or a selected file cannot be
\* opened or read to its end, Process returns an error and no lines at
\* all, also none of the files that were read.
ReadFailureAborts ==
    (Finished /\ (~dirReadable \/ unreadable # {})) =>
        /\ pc = "failed"
        /\ err \in {"failed to read log directory", "failed to parse file"}
        /\ result = <<>>
        /\ runs = <<>>

\* a failed run over a directory that can be read and holds a file that
\* can be read beside one that cannot
FailedBesideReadable ==
    /\ pc = "failed"
    /\ dirReadable
    /\ unreadable # {}
    /\ DOMAIN files \ unreadable # {}
    /\ err = "failed to parse file"

\* no file has a line with a timestamp
noTimestamps ==
    \A tag \in DOMAIN files :
        timestamped(resolveAll([t \in {tag} |-> parseFile(files[tag], tag)])[tag]) = {}

\* C14: when no file has a timestamped line, automatic alignment computes
\* no offsets and reports no error: the offset table after Process holds
\* exactly the manual entries and Process succeeds.
NothingToAlign ==
    (Finished /\ autoAlign /\ noTimestamps) =>
        /\ pc = "done" /\ err = "nil"
        /\ ~reference.found
        /\ fileOffsets = manualOffsets

\* a completed run with alignment on and a manual entry over two files
\* none of which has a timestamp
AlignedNothing ==
    /\ Done /\ autoAlign
    /\ noTimestamps
    /\ Cardinality(DOMAIN files) >= 2
    /\ DOMAIN manualOffsets # {}
    /\ DOMAIN manualOffsets \subseteq DOMAIN files

----------------------------------------------------------------------------
(* Properties of the resolved timestamps *)

\* the timestamp field holds an absolute instant or nothing
absoluteOrAbsent(ts) ==
    IF ts.present
    THEN ts.Type \in {"TypeAbsolute", "TypeLinux"}
    ELSE ts = NilTimestamp

\* C15: every line that reaches the merge step carries an absolute instant
\* or no timestamp at all: at no point does a line's timestamp field hold
\* a relative (uptime-typed) value, and a line whose uptime was not
\* resolved has an absent timestamp.
AbsoluteOrAbsent ==
    Done =>
      /\ \A i \in DOMAIN allLines : absoluteOrAbsent(allLines[i].Timestamp)
      /\ \A i \in DOMAIN result : absoluteOrAbsent(result[i].Timestamp)
      /\ \A tag \in DOMAIN parsed : \A n \in DOMAIN parsed[tag] :
            /\ absoluteOrAbsent(parsed[tag][n].Timestamp)
            /\ absoluteOrAbsent(linesByTag[tag][n].Timestamp)
            /\ (n \in uptimeOnly(tag)
                  /\ linesByTag[tag][n].Timestamp = parsed[tag][n].Timestamp)
                  => \E i \in DOMAIN allLines :
                        /\ allLines[i].Tag = tag /\ allLines[i].LineNumber = n
                        /\ ~allLines[i].Timestamp.present

\* a run in which one uptime line of a file was resolved and carries its
\* uptime beside the instant, and another one was not resolved
ResolvedAndUnresolved ==
    /\ Done
    /\ \E tag \in DOMAIN parsed : \E n, m \in uptimeOnly(tag) :
          /\ linesByTag[tag][n].Timestamp.present
          /\ linesByTag[tag][n].Timestamp.UptimeSec > 0
          /\ ~linesByTag[tag][m].Timestamp.present

\* the lines the second pass gave a timestamp
resolvedLines(tag) ==
    {n \in DOMAIN parsed[tag] :
        ~parsed[tag][n].Timestamp.present /\ linesByTag[tag][n].Timestamp.present}

\* C17: when the anchor selected for an uptime-only line has a paired
\* uptime, the line's resolved instant is the anchor's instant plus (the
\* line's uptime minus the anchor's paired uptime), for a positive and a
\* negative difference: t1 + (u - u1) when the anchor at u1 is selected.
LinearExtrapolation ==
    Done => \A tag \in DOMAIN parsed : \A n \in resolvedLines(tag) :
                LET ref == absTimestamp(parsed[tag], refAbs(parsed[tag], n))
                IN  ref.hasUptime =>
                       /\ linesByTag[tag][n].Timestamp.Time =
                             ref.time + (parsed[tag][n].UptimeSec - ref.uptime)
                       /\ linesByTag[tag][n].Timestamp.Nanos = 0

\* the nearest anchor after line n, 0 when there is none
nextAnchor(lines, n) ==
    IF \E j \in anchorIndices(lines) : j > n
    THEN Min({j \in anchorIndices(lines) : j > n})
    ELSE 0

\* C18: an uptime-only line that is followed within 5 lines by an
\* absolute-compact line resolves to exactly that line's instant when the
\* anchor has no paired uptime (the fallback: the anchor's instant is used
\* directly, without uptime arithmetic).
FallbackToAnchorInstant ==
    Done => \A tag \in DOMAIN parsed : \A n \in uptimeOnly(tag) :
                LET j == nextAnchor(parsed[tag], n)
                IN  (/\ j # 0
                     /\ j <= n + UptimeWindow
                     /\ files[tag][j].head = "compact"
                     /\ ~absTimestamp(parsed[tag], j).hasUptime)
                       => /\ linesByTag[tag][n].Timestamp.present
                          /\ linesByTag[tag][n].Timestamp.Time = parsed[tag][j].Timestamp.Time
                          /\ linesByTag[tag][n].Timestamp.Nanos = 0

\* C19: every line that carries an absolute instant after parsing,
\* whichever convention produced it (absolute-compact, full date-time or
\* epoch-in-brackets), is collected as a candidate anchor by the resolver;
\* a file whose only timestamps are epoch-in-brackets has its uptime lines
\* resolved.
EveryTimestampAnchors ==
    Done => \A tag \in DOMAIN parsed :
                /\ anchorIndices(parsed[tag]) = timestamped(parsed[tag])
                /\ timestamped(parsed[tag]) # {} =>
                      \A n \in DOMAIN parsed[tag] :
                          parsed[tag][n].UptimeSec > 0
                             => linesByTag[tag][n].Timestamp.present

\* the anchor the selection policy names for line n of a file with an
\* anchor: the nearest anchor after the line if at most 10 lines away, else
\* the nearest before it if at most 10 lines away, else the anchor at the
\* smallest distance, the earlier one of two equally far
policyAnchor(lines, n) ==
    LET A == anchorIndices(lines)
        after == {j \in A : j > n}
        before == {j \in A : j < n}
        dist == Min({abs(j - n) : j \in A})
    IN  IF after # {} /\ Min(after) - n <= 10 THEN Min(after)
        ELSE IF before # {} /\ n - Max(before) <= 10 THEN Max(before)
        ELSE Min({j \in A : abs(j - n) = dist})

\* the instant the second pass derives from anchor j for line n
instantFrom(lines, j, n) ==
    LET ref == absTimestamp(lines, j)
    IN  IF ref.hasUptime
        THEN ref.time + uptimeDuration(lines[n].UptimeSec, ref.uptime).ms
        ELSE ref.time

\* C16: for each uptime-only line the resolver selects the nearest anchor
\* after it if that anchor is at most 10 lines away; otherwise the nearest
\* anchor before it if that one is at most 10 lines away; otherwise the
\* anchor with the smallest distance in either direction, the earlier one
\* when a forward and a backward anchor are equally far.
SelectsByWindow ==
    Done => \A tag \in DOMAIN parsed :
                anchorIndices(parsed[tag]) # {} =>
                    \A n \in uptimeOnly(tag) :
                        /\ linesByTag[tag][n].Timestamp.present
                        /\ linesByTag[tag][n].Timestamp.Time =
                              instantFrom(parsed[tag], policyAnchor(parsed[tag], n), n)

\* the selection policy on the lines the second pass handles, those with
\* an uptime above zero
SelectsByWindowAboveZero ==
    Done => \A tag \in DOMAIN parsed :
                anchorIndices(parsed[tag]) # {} =>
                    \A n \in uptimeOnly(tag) :
                        parsed[tag][n].UptimeSec > 0 =>
                            /\ linesByTag[tag][n].Timestamp.present
                            /\ linesByTag[tag][n].Timestamp.Time =
                                  instantFrom(parsed[tag], policyAnchor(parsed[tag], n), n)

\* the uptime the pairing rule names for the anchor on line j, the lines
\* U being the uptime-only lines: that of the nearest of them among the 5
\* lines before the anchor, else of the nearest among the 5 lines after it
policyPair(tag, j, U) ==
    LET before == {i \in U : i < j /\ i >= j - 5}
        after == {i \in U : i > j /\ i <= j + 5}
    IN  IF before # {}
        THEN [hasUptime |-> TRUE, uptime |-> ParseUptime(files[tag][Max(before)]).uptime]
        ELSE IF after # {}
        THEN [hasUptime |-> TRUE, uptime |-> ParseUptime(files[tag][Min(after)]).uptime]
        ELSE [hasUptime |-> FALSE, uptime |-> 0]

\* the pair the first pass records for the anchor on line j
recordedPair(tag, j) ==
    [hasUptime |-> absTimestamp(parsed[tag], j).hasUptime,
     uptime |-> absTimestamp(parsed[tag], j).uptime]

\* C20: an anchor's paired uptime is the uptime of the nearest uptime-only
\* line among the 5 lines before the anchor or, when none of those has
\* one, of the nearest uptime-only line among the 5 lines after it; an
\* anchor with no uptime-only line within 5 lines on either side has no
\* paired uptime, and an uptime token on the anchor line itself is never
\* used.
PairsNearestUptime ==
    Done => \A tag \in DOMAIN parsed : \A j \in anchorIndices(parsed[tag]) :
                recordedPair(tag, j) = policyPair(tag, j, uptimeOnly(tag))

\* the pairing rule when only the lines with an uptime above zero count as
\* uptime-only lines
PairsNearestUptimeAboveZero ==
    Done => \A tag \in DOMAIN parsed : \A j \in anchorIndices(parsed[tag]) :
                recordedPair(tag, j) =
                    policyPair(tag, j, {n \in uptimeOnly(tag) : parsed[tag][n].UptimeSec > 0})

----------------------------------------------------------------------------
(* Properties of the applied offsets *)

\* the line of the output that is line n of the file of tag
outputOf(tag, n) ==
    result[CHOOSE i \in DOMAIN result :
              result[i].Tag = tag /\ result[i].LineNumber = n]

\* C21: in the output of Process every timestamped line's time is its
\* resolved time, as it was before the offsets, plus the offset-table entry
\* of its tag, zero when the tag has no entry; the offset is applied to
\* each line exactly once, and a line without a timestamp stays without.
OffsetAppliedOnce ==
    Done => \A tag \in DOMAIN linesByTag : \A n \in DOMAIN linesByTag[tag] :
                LET before == linesByTag[tag][n].Timestamp
                    after == outputOf(tag, n).Timestamp
                IN  IF before.present
                    THEN after = [before EXCEPT
                                     !.Time = @ + offsetOf(fileOffsets, tag)]
                    ELSE after = NilTimestamp

\* a run in which a file with a resolved uptime line and an anchor was
\* shifted and another file with a timestamp has no entry in the table
ShiftedBesideUnshifted ==
    /\ Done
    /\ \E tag \in DOMAIN fileOffsets :
          /\ fileOffsets[tag] # 0
          /\ tag \in DOMAIN linesByTag
          /\ resolvedLines(tag) # {}
          /\ Cardinality(timestamped(linesByTag[tag])) >= 2
    /\ \E tag \in DOMAIN linesByTag \ DOMAIN fileOffsets :
          timestamped(linesByTag[tag]) # {}

----------------------------------------------------------------------------
(* Properties of the order of ties *)

\* the place in the output of the line appended at place i of allLines
placeInResult(i) ==
    CHOOSE k \in DOMAIN result :
        result[k].Tag = allLines[i].Tag /\ result[k].LineNumber = allLines[i].LineNumber

\* two timestamps denote the same instant
sameInstant(a, b) == a.present /\ b.present /\ ~Before(a, b) /\ ~Before(b, a)

\* C22: lines whose offset-adjusted timestamps are exactly equal appear in
\* the merged output in their relative insertion order, the order in which
\* they were concatenated before the sort; two lines of one file with equal
\* timestamps keep their file order.
TiesKeepInsertionOrder ==
    Done => \A i, j \in DOMAIN allLines :
                (i < j /\ sameInstant(allLines[i].Timestamp, allLines[j].Timestamp))
                    => placeInResult(i) < placeInResult(j)

----------------------------------------------------------------------------
(* Properties of the order of the phases *)

\* C23: Process runs its phases strictly in order: every file is parsed to
\* its end before the resolution of any file starts; the resolution of all
\* files is complete before the automatic offsets are computed, so that
\* they are computed from the resolved timestamps; and all offsets are
\* computed before any offset is applied and before the sort.
PhasesInOrder ==
    /\ DOMAIN linesByTag # {} => DOMAIN parsed = DOMAIN files
    /\ \A tag \in DOMAIN linesByTag :
          linesByTag[tag] = resolveAll(parsed)[tag]
    /\ pc \in {"config", "parsing", "resolving"} =>
          /\ fileOffsets = manualOffsets
          /\ ~reference.found
          /\ allLines = <<>> /\ result = <<>>
    /\ pc \in {"applying", "done"} =>
          /\ linesByTag = resolveAll(parsed)
          /\ autoAlign =>
                /\ reference = chooseReference(linesByTag, rangeOrder)
                /\ fileOffsets =
                      calculateAutoOffsets(linesByTag, manualOffsets, rangeOrder).fileOffsets
          /\ ~autoAlign => fileOffsets = manualOffsets
          /\ \A i \in DOMAIN allLines :
                LET before == linesByTag[allLines[i].Tag][allLines[i].LineNumber]
                IN  allLines[i] =
                       applyOffset(<<before>>, offsetOf(fileOffsets, before.Tag))[1]
    /\ pc = "done" => appliedTags = DOMAIN files
    /\ result # <<>> => pc = "done"

\* a finished run in which the file with the most timestamps became the
\* reference by an uptime line that was resolved, a file with as many
\* parsed timestamps coming before it in the search, and a file was shifted
ReferenceByResolvedLines ==
    /\ Done /\ autoAlign
    /\ result # <<>>
    /\ \E k, m \in DOMAIN rangeOrder :
          /\ m < k
          /\ rangeOrder[k] = reference.tag
          /\ Cardinality(timestamped(parsed[rangeOrder[k]]))
                = Cardinality(timestamped(parsed[rangeOrder[m]]))
          /\ Cardinality(timestamped(parsed[rangeOrder[m]])) > 0
    /\ \E tag \in DOMAIN fileOffsets : fileOffsets[tag] # 0

----------------------------------------------------------------------------
(* Properties of a run without automatic alignment *)

\* the offset automatic alignment would compute for a tag against the
\* daemon file
offsetAgainstDaemon(tag) ==
    roundedHours(firstTime(linesByTag["daemon"]) - firstTime(linesByTag[tag]),
                 firstNanos(linesByTag["daemon"]) - firstNanos(linesByTag[tag])) * Hour

\* C24: with automatic alignment disabled, Process computes no offsets: the
\* offset table after Process holds exactly the manual entries, the lines
\* of a tag with a manual entry are shifted by that entry, and the lines of
\* every other tag keep their resolved timestamps.
NoOffsetsWhenDisabled ==
    (Done /\ ~autoAlign) =>
        /\ fileOffsets = manualOffsets
        /\ ~reference.found
        /\ \A tag \in DOMAIN linesByTag : \A n \in DOMAIN linesByTag[tag] :
              linesByTag[tag][n].Timestamp.present =>
                 outputOf(tag, n).Timestamp =
                    [linesByTag[tag][n].Timestamp EXCEPT
                        !.Time = IF tag \in DOMAIN manualOffsets
                                 THEN @ + manualOffsets[tag]
                                 ELSE @]

\* a run without alignment over a daemon file, a file with a manual entry
\* and a file that alignment would have shifted
DisabledBesideManual ==
    /\ Done /\ ~autoAlign
    /\ daemonHasTimestamp
    /\ \E tag \in DOMAIN manualOffsets :
          tag \in DOMAIN linesByTag /\ timestamped(linesByTag[tag]) # {}
    /\ \E tag \in DOMAIN linesByTag \ DOMAIN manualOffsets :
          /\ tag # "daemon"
          /\ timestamped(linesByTag[tag]) # {}
          /\ offsetAgainstDaemon(tag) # 0

----------------------------------------------------------------------------
(* Properties of the parsers on fields out of range *)

\* the text without its head token: what the later conventions see
withoutHead(line) == [line EXCEPT !.head = "none", !.t = 0]

\* C25: a timestamp parser reports a timestamp only for text that denotes a
\* valid time: text that has a convention's digit layout and a field out
\* of range (day 00, hour 25, minute 61) is no match and falls through to
\* the next convention; it is not turned into another, normalised instant.
OutOfRangeNoMatch ==
    Done => \A tag \in DOMAIN parsed : \A n \in DOMAIN parsed[tag] :
                ~files[tag][n].inRange =>
                    /\ parsed[tag][n].Timestamp =
                          ParseLine(tag, withoutHead(files[tag][n]), n).Timestamp
                    /\ parsed[tag][n].UptimeSec =
                          ParseLine(tag, withoutHead(files[tag][n]), n).UptimeSec

----------------------------------------------------------------------------
(* Properties of ResolveUptimeTimestamps as a function of the lines *)

\* C26: ResolveUptimeTimestamps is idempotent: a second call on the lines
\* a first call has processed changes no line; the lines the first call
\* resolved are not resolved again, although they count as anchors in the
\* second call, and the second call fails exactly when the first one did.
ResolveIdempotent ==
    Done => \A tag \in DOMAIN parsed :
                LET first == ResolveUptimeTimestamps(parsed[tag])
                    second == ResolveUptimeTimestamps(first.lines)
                IN  /\ hasUptime(parsed[tag]) => linesByTag[tag] = first.lines
                    /\ second.lines = first.lines
                    /\ second.err = first.err

\* a file in which the first call resolved two uptime lines to different
\* instants, which are anchors of the second call
ResolvedTwoLines ==
    /\ Done
    /\ \E tag \in DOMAIN parsed : \E n, m \in resolvedLines(tag) :
          /\ n # m
          /\ linesByTag[tag][n].Timestamp.Time # linesByTag[tag][m].Timestamp.Time
          /\ {n, m} \subseteq anchorIndices(linesByTag[tag])
          /\ ~ResolveUptimeTimestamps(parsed[tag]).err

\* C27: ResolveUptimeTimestamps changes only the timestamp field of
\* uptime-only lines: it never changes the timestamp of a line that had
\* one, never changes a line's text, tag, line number or stored uptime,
\* never adds, removes or reorders lines, and when it returns an error (no
\* anchor) it has changed nothing.
ResolveChangesOnlyTimestamps ==
    Done => \A tag \in DOMAIN parsed :
                LET called == ResolveUptimeTimestamps(parsed[tag])
                IN  /\ linesByTag[tag] =
                          IF hasUptime(parsed[tag]) THEN called.lines ELSE parsed[tag]
                    /\ DOMAIN called.lines = DOMAIN parsed[tag]
                    /\ \A n \in DOMAIN parsed[tag] :
                          /\ [called.lines[n] EXCEPT !.Timestamp = parsed[tag][n].Timestamp]
                                = parsed[tag][n]
                          /\ called.lines[n].Timestamp # parsed[tag][n].Timestamp
                                => /\ n \in uptimeOnly(tag)
                                   /\ ~parsed[tag][n].Timestamp.present
                    /\ called.err => called.lines = parsed[tag]
                    /\ called.err <=> anchorIndices(parsed[tag]) = {}

\* a file of three lines in which the call resolved an uptime line beside
\* an anchor and a line it had to leave alone
ResolvedBesideUntouched ==
    /\ Done
    /\ \E tag \in DOMAIN parsed :
          /\ resolvedLines(tag) # {}
          /\ \E n \in DOMAIN parsed[tag] :
                /\ n \notin anchorIndices(parsed[tag])
                /\ linesByTag[tag][n].Timestamp = parsed[tag][n].Timestamp
          /\ \E j \in anchorIndices(parsed[tag]) : linesByTag[tag][j] = parsed[tag][j]

----------------------------------------------------------------------------
(* Properties of automatic alignment under a shift of the input *)

\* the whole numbers of hours by which a file's clock is shifted
ShiftHours == {-5, 5}

\* the text with its head token k hours later
shiftText(text, k) ==
    IF text.head = "none" THEN text ELSE [text EXCEPT !.t = @ + k * Hour]

\* the directory in which every timestamp of the file of tag is k hours later
shiftFile(dir, tag, k) ==
    [x \in DOMAIN dir |->
        IF x = tag THEN [n \in DOMAIN dir[x] |-> shiftText(dir[x][n], k)] ELSE dir[x]]

\* the lines of a directory after parsing and uptime resolution
resolvedOf(dir) == resolveAll([tag \in DOMAIN dir |-> parseFile(dir[tag], tag)])

\* the offset table of a run on a directory with the configuration and the
\* map order of the present run
offsetsOf(dir) == align(autoAlign, resolvedOf(dir), manualOffsets, rangeOrder).fileOffsets

\* the timestamps of a file's lines after the offsets are applied
finalTimestamps(dir, tag) ==
    LET shifted == applyOffset(resolvedOf(dir)[tag], offsetOf(offsetsOf(dir), tag))
    IN  [n \in DOMAIN shifted |-> [shifted[n].Timestamp EXCEPT !.UptimeSec = 0]]

\* C28: with automatic alignment enabled and no manual offsets, adding the
\* same whole number of hours k, positive or negative, to every timestamp
\* of one file that is not the reference changes that file's automatic
\* offset by exactly -k, so that every line's final time is what it is
\* without the shift.
ShiftCompensated ==
    (Done /\ autoAlign /\ manualOffsets = <<>> /\ reference.found) =>
        \A tag \in DOMAIN files \ {reference.tag} : \A k \in ShiftHours :
            LET dir == shiftFile(files, tag, k)
            IN  /\ tag \in DOMAIN fileOffsets =>
                      /\ tag \in DOMAIN offsetsOf(dir)
                      /\ offsetsOf(dir)[tag] = fileOffsets[tag] - k * Hour
                /\ \A other \in DOMAIN files :
                      finalTimestamps(dir, other) = finalTimestamps(files, other)

----------------------------------------------------------------------------
(* Properties of lines resolved against one anchor *)

\* C29: two uptime-only lines of one file that are resolved against the
\* same anchor, the anchor having a paired uptime, get timestamps whose
\* difference is the difference of their uptime values; so among such
\* lines the resolved order agrees with the order of the uptimes.
SameAnchorKeepsDifferences ==
    Done => \A tag \in DOMAIN parsed : \A n, m \in resolvedLines(tag) :
                (/\ refAbs(parsed[tag], n) = refAbs(parsed[tag], m)
                 /\ absTimestamp(parsed[tag], refAbs(parsed[tag], n)).hasUptime)
                    => /\ linesByTag[tag][n].Timestamp.Time - linesByTag[tag][m].Timestamp.Time
                             = parsed[tag][n].UptimeSec - parsed[tag][m].UptimeSec
                       /\ linesByTag[tag][n].Timestamp.Nanos = linesByTag[tag][m].Timestamp.Nanos
                       /\ parsed[tag][n].UptimeSec < parsed[tag][m].UptimeSec
                             => Before(linesByTag[tag][n].Timestamp, linesByTag[tag][m].Timestamp)

----------------------------------------------------------------------------
(* Properties of a manual offset on the reference file *)

\* the manual entries without the one of the reference tag
manualElsewhere ==
    [tag \in DOMAIN manualOffsets \ {reference.tag} |-> manualOffsets[tag]]

\* C30: the reference instant of automatic alignment is taken from the
\* reference file's timestamps before any offset is applied: a manual
\* offset on the reference tag does not change the automatic offsets of
\* the other files, and the reference file's own lines are still shifted
\* by that manual offset in the output.
ReferenceBeforeOffsets ==
    (Done /\ autoAlign /\ reference.found /\ reference.tag \in DOMAIN manualOffsets) =>
        /\ reference.time = firstTime(linesByTag[reference.tag])
        /\ \A tag \in DOMAIN linesByTag \ {reference.tag} :
              offsetOf(fileOffsets, tag) =
                 offsetOf(align(TRUE, linesByTag, manualElsewhere, rangeOrder).fileOffsets,
                          tag)
        /\ autoAligned \subseteq DOMAIN fileOffsets
        /\ \A n \in timestamped(linesByTag[reference.tag]) :
              outputOf(reference.tag, n).Timestamp.Time =
                 linesByTag[reference.tag][n].Timestamp.Time + manualOffsets[reference.tag]

\* a run in which the reference file has a manual offset that is not zero
\* and another file got an automatic offset that is not zero
ManualOnReference ==
    /\ Done /\ autoAlign /\ reference.found
    /\ reference.tag \in DOMAIN manualOffsets
    /\ manualOffsets[reference.tag] # 0
    /\ \E tag \in autoAligned : fileOffsets[tag] # 0

====
